---- MODULE Spec2Model ----
(***************************************************************************)
(* Model of SAC.training_step (new EnvRunner stack) of                     *)
(* rllib/algorithms/sac/sac.py: the collect / gate / train / broadcast /   *)
(* report state machine, its counters, and the collaborators it drives     *)
(* (sampler, replay buffer, learner group, target synchronizer, workers).  *)
(* Every collaborator call may raise; the exception leaves training_step   *)
(* (pc = "raised") and the caller may enter training_step again.           *)
(* config.uses_new_env_runners holds throughout: the old-stack fallback    *)
(* to DQN.training_step is outside this model.                             *)
(***************************************************************************)
EXTENDS Integers, Sequences, FiniteSets, TLC

(* ------------------------------------------------------------------ *)
(* Bounds of the model                                                 *)
(* ------------------------------------------------------------------ *)
MaxIters == 2        \* outer iterations (calls of training_step) explored
MaxEpLen == 1        \* longest episode chunk one worker returns per sample()
MaxInserted == 4     \* transitions a client inserts when driving the buffer alone

(* ------------------------------------------------------------------ *)
(* Metric / counter keys (ray.rllib.utils.metrics)                     *)
(* ------------------------------------------------------------------ *)
ALL_MODULES == "__all__"
DEFAULT_MODULE == "default_policy"
NUM_AGENT_STEPS_SAMPLED == "num_agent_steps_sampled"
NUM_ENV_STEPS_SAMPLED == "num_env_steps_sampled"
NUM_AGENT_STEPS_TRAINED == "num_agent_steps_trained"
NUM_ENV_STEPS_TRAINED == "num_env_steps_trained"
LAST_TARGET_UPDATE_TS == "last_target_update_ts"

CounterKeys ==
  { NUM_AGENT_STEPS_SAMPLED, NUM_ENV_STEPS_SAMPLED,
    NUM_AGENT_STEPS_TRAINED, NUM_ENV_STEPS_TRAINED, LAST_TARGET_UPDATE_TS }

SampledKeys == { NUM_AGENT_STEPS_SAMPLED, NUM_ENV_STEPS_SAMPLED }
TrainedKeys == { NUM_AGENT_STEPS_TRAINED, NUM_ENV_STEPS_TRAINED }

(* ------------------------------------------------------------------ *)
(* Generic helpers                                                     *)
(* ------------------------------------------------------------------ *)
RECURSIVE SumSeq(_)
SumSeq(s) == IF s = <<>> THEN 0 ELSE Head(s) + SumSeq(Tail(s))

Max(a, b) == IF a >= b THEN a ELSE b

RECURSIVE GCD(_, _)
GCD(a, b) == IF b = 0 THEN a ELSE GCD(b, a % b)

Abs(x) == IF x < 0 THEN -x ELSE x

Last(s) == s[Len(s)]

EmptyDict == [k \in {} |-> 0]

(* ------------------------------------------------------------------ *)
(* Configuration (SACConfig); fixed for a run, chosen in Init          *)
(* ------------------------------------------------------------------ *)
NoIntensity == 0     \* training_intensity = None

\* rollout_fragment_length is "auto" or an explicit number.
AutoFragment == [ auto |-> TRUE, value |-> 0 ]

ExplicitFragment(n) == [ auto |-> FALSE, value |-> n ]

\* The configurations the orchestrator is run with.  The non-default
\* settings (an explicit training_intensity, counting by env steps, n-step
\* folding) are each explored against the defaults of the others.
Configs ==
  { c \in [ num_steps_sampled_before_learning_starts : {0, 3},
            target_network_update_freq : {0, 2},
            num_remote_workers : {0, 2},
            count_steps_by : {"agent_steps", "env_steps"},
            train_batch_size : {1, 2},
            training_intensity : {NoIntensity, 1},
            n_step : {1, 2},
            rollout_fragment_length : {AutoFragment},
            capacity : {2} ] :
      /\ c.training_intensity = NoIntensity => c.train_batch_size = 1
      /\ c.count_steps_by = "env_steps" => c.training_intensity = NoIntensity
      /\ c.n_step > 1 =>
           c.training_intensity = NoIntensity /\ c.count_steps_by = "agent_steps" }

VARIABLES
  config,          \* self.config
  pc,              \* position inside training_step / its outcome
  iteration,       \* number of training_step calls started
  store_left,      \* collect rounds still to run in this iteration
  train_left,      \* train rounds still to run in this iteration
  counters,        \* self._counters
  episodes,        \* local `episodes`: lengths of the episodes of this round
  replay_buffer,   \* self.local_replay_buffer
  train_batch,     \* local `train_batch`: ids drawn by the last sample()
  train_results,   \* local `train_results`
  modules_to_update, \* local `modules_to_update`
  live,            \* learner: live parameters
  target,          \* learner: target parameters
  local_weights,   \* parameters held by the local worker
  remote_weights,  \* parameters held by each remote worker
  log,             \* collaborator calls made so far in this iteration
  prio_call,       \* arguments of the last update_priorities call
  sync_call,       \* arguments and outcome of the last additional_update call
  round_start,     \* counters as they were at the last round boundary
  exception        \* the call whose exception left training_step, if any

vars ==
  << config, pc, iteration, store_left, train_left, counters, episodes,
     replay_buffer, train_batch, train_results,
     modules_to_update, live, target, local_weights, remote_weights, log,
     prio_call, sync_call, round_start, exception >>

(* ------------------------------------------------------------------ *)
(* Rate controller: calculate_rr_weights(config)                       *)
(* ------------------------------------------------------------------ *)
get_rollout_fragment_length(cfg) ==
  IF cfg.rollout_fragment_length.auto
  THEN cfg.n_step
  ELSE cfg.rollout_fragment_length.value

\* Returns <<store_weight, sample_and_train_weight>>.
calculate_rr_weights(cfg) ==
  IF cfg.training_intensity = NoIntensity
  THEN << 1, 1 >>
  ELSE LET p == cfg.training_intensity * get_rollout_fragment_length(cfg)
                  * Max(1, cfg.num_remote_workers)
           q == cfg.train_batch_size
           g == GCD(p, q)
       IN  << q \div g, p \div g >>

(* ------------------------------------------------------------------ *)
(* Replay buffer collaborator                                          *)
(*   ids  : stored transition ids, oldest first                        *)
(*   prio : priority entry of every stored id                          *)
(*   next : insertion index of the next transition                     *)
(*   maxp : maximal priority seen so far                               *)
(* ------------------------------------------------------------------ *)
Eps == 1             \* prioritized_replay_eps, in priority units

EmptyBuffer == [ ids |-> <<>>, prio |-> EmptyDict, next |-> 1, maxp |-> Eps ]

Range(s) == { s[i] : i \in DOMAIN s }

\* Transitions an episode of `len` steps yields under n-step folding.
TransitionsOf(len, n) == Max(0, len - (n - 1))

\* Variant: a full buffer evicts its newest entry.
InsertOne_evict_newest(b, cap) ==
  LET kept == IF Len(b.ids) >= cap
              THEN SubSeq(b.ids, 1, Len(b.ids) - 1) ELSE b.ids
      ids2 == Append(kept, b.next)
  IN  [ ids  |-> ids2,
        prio |-> [ i \in Range(ids2) |->
                     IF i = b.next THEN b.maxp ELSE b.prio[i] ],
        next |-> b.next + 1,
        maxp |-> b.maxp ]

\* Variant: the priority entry of an evicted transition is kept.
InsertOne_keep_entries(b, cap) ==
  LET kept == IF Len(b.ids) >= cap THEN Tail(b.ids) ELSE b.ids
      ids2 == Append(kept, b.next)
  IN  [ ids  |-> ids2,
        prio |-> [ i \in DOMAIN b.prio \cup { b.next } |->
                     IF i = b.next THEN b.maxp ELSE b.prio[i] ],
        next |-> b.next + 1,
        maxp |-> b.maxp ]

InsertOne(b, cap) ==
  LET kept == IF Len(b.ids) >= cap THEN Tail(b.ids) ELSE b.ids
      ids2 == Append(kept, b.next)
  IN  [ ids  |-> ids2,
        prio |-> [ i \in Range(ids2) |->
                     IF i = b.next THEN b.maxp ELSE b.prio[i] ],
        next |-> b.next + 1,
        maxp |-> b.maxp ]

RECURSIVE InsertN(_, _, _)
InsertN(b, k, cap) ==
  IF k = 0 THEN b ELSE InsertN(InsertOne(b, cap), k - 1, cap)

RECURSIVE BufferAddEpisodes(_, _, _, _)
BufferAddEpisodes(b, eps, n, cap) ==
  IF eps = <<>> THEN b
  ELSE BufferAddEpisodes(InsertN(b, TransitionsOf(Head(eps), n), cap),
                         Tail(eps), n, cap)

\* Variant: an under-populated buffer is refused as well.
SampleRaises_underpopulated(b, num_items) == Len(b.ids) < num_items

\* sample(num_items) raises InsufficientDataError on an empty buffer only.
SampleRaises(b, num_items) == b.ids = <<>>

\* Batches sample(num_items) may return: num_items stored ids, with replacement.
SampleBatches(b, num_items) == [ 1..num_items -> Range(b.ids) ]

\* Variant: an id that is no longer stored gets a priority entry again.
RECURSIVE BufferUpdatePriorities_revive(_, _, _)
BufferUpdatePriorities_revive(b, ids, td_errors) ==
  IF ids = <<>> THEN b
  ELSE LET i  == Head(ids)
           p  == Abs(Head(td_errors)) + Eps
           b2 == [ b EXCEPT !.prio = [ j \in DOMAIN b.prio \cup { i } |->
                                         IF j = i THEN p ELSE b.prio[j] ],
                            !.maxp = Max(@, p) ]
       IN  BufferUpdatePriorities_revive(b2, Tail(ids), Tail(td_errors))

RECURSIVE BufferUpdatePriorities(_, _, _)
BufferUpdatePriorities(b, ids, td_errors) ==
  IF ids = <<>> THEN b
  ELSE LET i  == Head(ids)
           p  == Abs(Head(td_errors)) + Eps
           b2 == IF i \in DOMAIN b.prio
                 THEN [ b EXCEPT !.prio[i] = p, !.maxp = Max(@, p) ]
                 ELSE b
       IN  BufferUpdatePriorities(b2, Tail(ids), Tail(td_errors))

(* ------------------------------------------------------------------ *)
(* Learner collaborator                                                *)
(* ------------------------------------------------------------------ *)
TdErrorValues == { -1, 0 }

\* What one learner returns for a batch whose td-errors are `td`.
LearnerResult(batch, td) ==
  [ k \in { ALL_MODULES, DEFAULT_MODULE } |->
      IF k = ALL_MODULES
      THEN [ num_steps |-> Len(batch) ]
      ELSE [ td_error |-> td ] ]

\* Variant: only the per-module results survive the reduction.
reduce_fn_modules_only(results) ==
  LET res == results[1]
  IN  [ k \in DOMAIN res \ { ALL_MODULES } |-> res[k] ]

\* reduce_fn over the result of the single learner: every metric is averaged
\* over the learners (one), the td-error arrays are kept as arrays.
reduce_fn(results) ==
  LET res == results[1]
  IN  [ k \in DOMAIN res |->
          IF k = ALL_MODULES
          THEN res[k]
          ELSE [ res[k] EXCEPT !.td_error = res[k].td_error ] ]

\* Target synchronizer: additional_update(module_ids, timestep, last_update).
SyncFires(freq, timestep, last_update) ==
  \/ freq = 0
  \/ freq > 0 /\ timestep - last_update >= freq

\* tau = 1/2 in the soft (Polyak) mode.
SyncTarget(freq, timestep, last_update, lv, tg) ==
  IF ~SyncFires(freq, timestep, last_update) THEN tg
  ELSE IF freq > 0 THEN lv
  ELSE (lv + tg) \div 2

AdditionalResults(modules, freq, timestep, last_update) ==
  [ m \in modules |->
      IF SyncFires(freq, timestep, last_update)
      THEN [ num_target_updates |-> 1, last_target_update_ts |-> timestep ]
      ELSE [ num_target_updates |-> 0, last_target_update_ts |-> last_update ] ]

(* ------------------------------------------------------------------ *)
(* Pieces of SAC.training_step                                         *)
(* ------------------------------------------------------------------ *)
\* Lengths of the episodes one sampler round may return.
SamplerResults(cfg) ==
  IF cfg.num_remote_workers <= 0
  THEN [ 1..1 -> 0..MaxEpLen ]
  ELSE [ 1..cfg.num_remote_workers -> 0..MaxEpLen ]

\* Variant: the env-step counter grows by the number of episodes.
CountSampled_env_episodes(c, eps) ==
  [ c EXCEPT ![NUM_AGENT_STEPS_SAMPLED] = @ + SumSeq(eps),
             ![NUM_ENV_STEPS_SAMPLED] = @ + Len(eps) ]

\* Variant: assignment instead of accumulation.
CountSampled_assign(c, eps) ==
  [ c EXCEPT ![NUM_AGENT_STEPS_SAMPLED] = SumSeq(eps),
             ![NUM_ENV_STEPS_SAMPLED] = SumSeq(eps) ]

CountSampled(c, eps) ==
  [ c EXCEPT ![NUM_AGENT_STEPS_SAMPLED] = @ + SumSeq(eps),
             ![NUM_ENV_STEPS_SAMPLED] = @ + SumSeq(eps) ]

CountTrained(c, batch) ==
  [ c EXCEPT ![NUM_AGENT_STEPS_TRAINED] = @ + Len(batch),
             ![NUM_ENV_STEPS_TRAINED] = @ + Len(batch) ]

CurrentTs(c, cfg) ==
  c[ IF cfg.count_steps_by = "agent_steps"
     THEN NUM_AGENT_STEPS_SAMPLED ELSE NUM_ENV_STEPS_SAMPLED ]

\* Variant: no warm-up gate.
GatePasses_always(current_ts, cfg) == TRUE

\* Variant: strict comparison at the warm-up gate.
GatePasses_strict(current_ts, cfg) ==
  current_ts > cfg.num_steps_sampled_before_learning_starts

GatePasses(current_ts, cfg) ==
  current_ts >= cfg.num_steps_sampled_before_learning_starts

ModulesToUpdate(results) == DOMAIN results \ { ALL_MODULES }

\* Variant: the trained-step counter handed over as the timestep.
SyncTimestep_trained(c) == c[NUM_AGENT_STEPS_TRAINED]

SyncTimestep(c) == c[NUM_AGENT_STEPS_SAMPLED]

SyncLastUpdate(c) == c[LAST_TARGET_UPDATE_TS]

\* Variant: the synchronizer output is dropped instead of merged.
MergeResults_dropped(results, additional) == results

\* for pid, res in additional_results.items(): train_results[pid].update(res)
MergeResults(results, additional) ==
  [ k \in DOMAIN results |->
      IF k \in DOMAIN additional THEN additional[k] @@ results[k]
      ELSE results[k] ]

\* Variant: off-by-one in the remote-worker test.
HasRemoteWorkers_always(cfg) == cfg.num_remote_workers >= 0

HasRemoteWorkers(cfg) == cfg.num_remote_workers > 0

\* Variant: one sampling round too many.
AfterCollectRound_extra(left) == IF left > 0 THEN "collect_sample" ELSE "gate"

AfterCollectRound(left) == IF left > 1 THEN "collect_sample" ELSE "gate"

\* Variant: the sampling loop re-entered from inside the training loop.
AfterTrainRound_resample(left) ==
  IF left > 1 THEN "collect_sample" ELSE "broadcast"

AfterTrainRound(left) == IF left > 1 THEN "train_sample" ELSE "broadcast"

\* Variant: the step count of the earlier rounds is carried into the result.
UpdateResults_accumulated(previous, result) ==
  IF ALL_MODULES \in DOMAIN previous
  THEN [ result EXCEPT ![ALL_MODULES].num_steps =
                          @ + previous[ALL_MODULES].num_steps ]
  ELSE result

\* train_results = self.learner_group.update_from_batch(...): a plain
\* assignment, whatever train_results held before.
UpdateResults(previous, result) == result

\* Variant: a collect round runs between sample and the learner update.
AfterSample_collect == "collect_sample"

\* The sampled batch goes straight to the learner (lines 484-524).
AfterSample == "train_update"

NoCall == [ batch |-> <<>>, td_error |-> <<>> ]

NoSync ==
  [ modules |-> {}, timestep |-> 0, last_update |-> 0, fired |-> FALSE ]

NoException == ""

\* Variant: the exception is swallowed and the metrics are returned.
Raise_swallowed == pc' = "done"

\* An exception of a collaborator propagates out of training_step.
Raise == pc' = "raised"

(* ------------------------------------------------------------------ *)
(* Initial state: a freshly built algorithm                            *)
(* ------------------------------------------------------------------ *)
Init ==
  /\ config \in Configs
  /\ pc = "idle"
  /\ iteration = 0
  /\ store_left = 0
  /\ train_left = 0
  /\ counters = [ k \in CounterKeys |-> 0 ]
  /\ episodes = <<>>
  /\ replay_buffer = EmptyBuffer
  /\ train_batch = <<>>
  /\ train_results = EmptyDict
  /\ modules_to_update = {}
  /\ live = 0
  /\ target = 0
  /\ local_weights = 0
  /\ remote_weights = [ w \in 1..config.num_remote_workers |-> 0 ]
  /\ log = <<>>
  /\ prio_call = NoCall
  /\ sync_call = NoSync
  /\ round_start = [ k \in CounterKeys |-> 0 ]
  /\ exception = NoException

(* ------------------------------------------------------------------ *)
(* Actions                                                             *)
(* ------------------------------------------------------------------ *)
\* Entry of training_step: weights computed, train_results = {}.
TrainingStepBegin ==
  /\ pc \in { "idle", "done", "raised" }
  /\ iteration < MaxIters
  /\ iteration' = iteration + 1
  /\ store_left' = calculate_rr_weights(config)[1]
  /\ train_left' = calculate_rr_weights(config)[2]
  /\ train_results' = EmptyDict
  /\ episodes' = <<>>
  /\ train_batch' = <<>>
  /\ modules_to_update' = {}
  /\ log' = <<>>
  /\ prio_call' = NoCall
  /\ sync_call' = NoSync
  /\ round_start' = counters
  /\ exception' = NoException
  /\ pc' = "collect_sample"
  /\ UNCHANGED << config, counters, replay_buffer, live, target,
                  local_weights, remote_weights >>

\* One sampler call of a collect round, followed by the counter updates.
CollectSample ==
  /\ pc = "collect_sample"
  /\ log' = Append(log, "sampler.sample")
  /\ round_start' = counters
  /\ \/ /\ \E eps \in SamplerResults(config) :
             /\ episodes' = eps
             /\ counters' = CountSampled(counters, eps)
        /\ pc' = "collect_add"
        /\ UNCHANGED exception
     \/ /\ Raise
        /\ exception' = Last(log')
        /\ UNCHANGED << episodes, counters >>
  /\ UNCHANGED << config, iteration, store_left, train_left, replay_buffer,
                  train_batch, train_results, modules_to_update, live, target,
                  local_weights, remote_weights, prio_call, sync_call >>

\* self.local_replay_buffer.add(episodes); end of a collect round.
BufferAdd ==
  /\ pc = "collect_add"
  /\ log' = Append(log, "buffer.add")
  /\ \/ /\ replay_buffer' =
             BufferAddEpisodes(replay_buffer, episodes, config.n_step,
                               config.capacity)
        /\ store_left' = store_left - 1
        /\ episodes' = <<>>
        /\ round_start' = counters
        /\ pc' = AfterCollectRound(store_left)
        /\ UNCHANGED exception
     \/ /\ Raise
        /\ exception' = Last(log')
        /\ UNCHANGED << replay_buffer, store_left, episodes, round_start >>
  /\ UNCHANGED << config, iteration, train_left, counters,
                  train_batch, train_results, modules_to_update, live, target,
                  local_weights, remote_weights, prio_call, sync_call >>

\* if current_ts >= num_steps_sampled_before_learning_starts: ... else return.
Gate ==
  /\ pc = "gate"
  /\ pc' = IF GatePasses(CurrentTs(counters, config), config)
           THEN "train_sample" ELSE "done"
  /\ UNCHANGED << config, iteration, store_left, train_left, counters,
                  episodes, replay_buffer, train_batch, train_results,
                  modules_to_update, live, target, local_weights,
                  remote_weights, log, prio_call, sync_call, round_start,
                  exception >>

\* self.local_replay_buffer.sample(num_items=train_batch_size, ...).
BufferSample ==
  /\ pc = "train_sample"
  /\ log' = Append(log, "buffer.sample")
  /\ round_start' = counters
  /\ \/ /\ ~SampleRaises(replay_buffer, config.train_batch_size)
        /\ \E b \in SampleBatches(replay_buffer, config.train_batch_size) :
             train_batch' = b
        /\ pc' = AfterSample
        /\ UNCHANGED exception
     \/ /\ Raise
        /\ exception' = Last(log')
        /\ UNCHANGED train_batch
  /\ UNCHANGED << config, iteration, store_left, train_left, counters,
                  episodes, replay_buffer, train_results, modules_to_update,
                  live, target, local_weights, remote_weights, prio_call,
                  sync_call >>

\* learner_group.update_from_batch(train_batch, reduce_fn), then the
\* trained-step counters.
LearnerUpdate ==
  /\ pc = "train_update"
  /\ log' = Append(log, "learner.update")
  /\ \/ /\ \E td \in [ 1..Len(train_batch) -> TdErrorValues ] :
             train_results' =
               UpdateResults(train_results,
                             reduce_fn(<< LearnerResult(train_batch, td) >>))
        /\ live' = live + 1
        /\ counters' = CountTrained(counters, train_batch)
        /\ pc' = "train_prio"
        /\ UNCHANGED exception
     \/ /\ Raise
        /\ exception' = Last(log')
        /\ UNCHANGED << train_results, live, counters >>
  /\ UNCHANGED << config, iteration, store_left, train_left, episodes,
                  replay_buffer, train_batch, modules_to_update, target,
                  local_weights, remote_weights, prio_call, sync_call,
                  round_start >>

\* update_priorities_in_episode_replay_buffer(buffer, config, train_batch,
\* train_results).
UpdatePriorities ==
  /\ pc = "train_prio"
  /\ log' = Append(log, "buffer.update_priorities")
  /\ \/ /\ prio_call' = [ batch |-> train_batch,
                          td_error |-> train_results[DEFAULT_MODULE].td_error ]
        /\ replay_buffer' =
             BufferUpdatePriorities(replay_buffer, train_batch,
                                    train_results[DEFAULT_MODULE].td_error)
        /\ pc' = "train_target"
        /\ UNCHANGED exception
     \/ /\ Raise
        /\ exception' = Last(log')
        /\ UNCHANGED << prio_call, replay_buffer >>
  /\ UNCHANGED << config, iteration, store_left, train_left, counters,
                  episodes, train_batch, train_results, modules_to_update,
                  live, target, local_weights, remote_weights, sync_call,
                  round_start >>

\* learner_group.additional_update(...), then the merge of its results;
\* end of a train round.
AdditionalUpdate ==
  /\ pc = "train_target"
  /\ log' = Append(log, "learner.additional_update")
  /\ modules_to_update' = ModulesToUpdate(train_results)
  /\ \/ LET freq == config.target_network_update_freq
            ts   == SyncTimestep(counters)
            lu   == SyncLastUpdate(counters)
            mods == ModulesToUpdate(train_results)
        IN  /\ sync_call' = [ modules |-> mods, timestep |-> ts,
                              last_update |-> lu,
                              fired |-> SyncFires(freq, ts, lu) ]
            /\ target' = SyncTarget(freq, ts, lu, live, target)
            /\ train_results' =
                 MergeResults(train_results,
                              AdditionalResults(mods, freq, ts, lu))
            /\ train_left' = train_left - 1
            /\ train_batch' = <<>>
            /\ prio_call' = NoCall
            /\ round_start' = counters
            /\ pc' = AfterTrainRound(train_left)
            /\ UNCHANGED exception
     \/ /\ Raise
        /\ exception' = Last(log')
        /\ UNCHANGED << sync_call, target, train_results, train_left,
                        train_batch, prio_call, round_start >>
  /\ UNCHANGED << config, iteration, store_left, counters, episodes,
                  replay_buffer, live, local_weights, remote_weights >>

\* workers.sync_weights(from learner_group) when remote workers exist.
SyncWeights ==
  /\ pc = "broadcast"
  /\ HasRemoteWorkers(config)
  /\ log' = Append(log, "workers.sync_weights")
  /\ \/ /\ remote_weights' = [ w \in DOMAIN remote_weights |-> live ]
        /\ pc' = "done"
        /\ UNCHANGED exception
     \/ /\ Raise
        /\ exception' = Last(log')
        /\ UNCHANGED remote_weights
  /\ UNCHANGED << config, iteration, store_left, train_left, counters,
                  episodes, replay_buffer, train_batch, train_results,
                  modules_to_update, live, target, local_weights, prio_call,
                  sync_call, round_start >>

\* local_worker().set_weights(learner_group.get_weights()) otherwise.
SetLocalWeights ==
  /\ pc = "broadcast"
  /\ ~HasRemoteWorkers(config)
  /\ log' = Append(log, "local_worker.set_weights")
  /\ \/ /\ local_weights' = live
        /\ pc' = "done"
        /\ UNCHANGED exception
     \/ /\ Raise
        /\ exception' = Last(log')
        /\ UNCHANGED local_weights
  /\ UNCHANGED << config, iteration, store_left, train_left, counters,
                  episodes, replay_buffer, train_batch, train_results,
                  modules_to_update, live, target, remote_weights, prio_call,
                  sync_call, round_start >>

Next ==
  \/ TrainingStepBegin
  \/ CollectSample
  \/ BufferAdd
  \/ Gate
  \/ BufferSample
  \/ LearnerUpdate
  \/ UpdatePriorities
  \/ AdditionalUpdate
  \/ SyncWeights
  \/ SetLocalWeights

Spec == Init /\ [][Next]_vars

TypeOK ==
  /\ pc \in { "idle", "collect_sample", "collect_add", "gate", "train_sample",
              "train_update", "train_prio", "train_target", "broadcast",
              "done", "raised" }
  /\ iteration \in 0..MaxIters
  /\ Len(replay_buffer.ids) <= config.capacity

(* ------------------------------------------------------------------ *)
(* The replay buffer driven on its own: a client calls add, sample and *)
(* update_priorities in any order, also with ids that were evicted     *)
(* since they were sampled.  Each call leaves its own arguments and    *)
(* result behind (episodes, train_batch, prio_call, exception).        *)
(* ------------------------------------------------------------------ *)
InsufficientDataError == "InsufficientDataError"

BufferConfigs ==
  [ capacity : {2, 3}, train_batch_size : {1, 2}, n_step : {1, 2} ]

ClientEpisodes ==
  [ 1..1 -> 0..(MaxEpLen + 1) ] \cup [ 1..2 -> 0..(MaxEpLen + 1) ]

RECURSIVE TransitionsOfAll(_, _)
TransitionsOfAll(eps, n) ==
  IF eps = <<>> THEN 0
  ELSE TransitionsOf(Head(eps), n) + TransitionsOfAll(Tail(eps), n)

InitBuffer ==
  /\ config \in BufferConfigs
  /\ pc = "client"
  /\ iteration = 0
  /\ store_left = 0
  /\ train_left = 0
  /\ counters = [ k \in CounterKeys |-> 0 ]
  /\ episodes = <<>>
  /\ replay_buffer = EmptyBuffer
  /\ train_batch = <<>>
  /\ train_results = EmptyDict
  /\ modules_to_update = {}
  /\ live = 0
  /\ target = 0
  /\ local_weights = 0
  /\ remote_weights = <<>>
  /\ log = <<>>
  /\ prio_call = NoCall
  /\ sync_call = NoSync
  /\ round_start = [ k \in CounterKeys |-> 0 ]
  /\ exception = NoException

ClientAdd ==
  /\ pc = "client"
  /\ \E eps \in ClientEpisodes :
       /\ replay_buffer.next - 1 + TransitionsOfAll(eps, config.n_step)
            <= MaxInserted
       /\ episodes' = eps
       /\ replay_buffer' =
            BufferAddEpisodes(replay_buffer, eps, config.n_step,
                              config.capacity)
  /\ log' = << "buffer.add" >>
  /\ exception' = NoException
  /\ train_batch' = <<>>
  /\ prio_call' = NoCall
  /\ UNCHANGED << config, pc, iteration, store_left, train_left, counters,
                  train_results, modules_to_update, live, target,
                  local_weights, remote_weights, sync_call, round_start >>

ClientSample ==
  /\ pc = "client"
  /\ log' = << "buffer.sample" >>
  /\ \/ /\ SampleRaises(replay_buffer, config.train_batch_size)
        /\ exception' = InsufficientDataError
        /\ train_batch' = <<>>
     \/ /\ ~SampleRaises(replay_buffer, config.train_batch_size)
        /\ exception' = NoException
        /\ \E b \in SampleBatches(replay_buffer, config.train_batch_size) :
             train_batch' = b
  /\ episodes' = <<>>
  /\ prio_call' = NoCall
  /\ UNCHANGED << config, pc, iteration, store_left, train_left, counters,
                  replay_buffer, train_results, modules_to_update,
                  live, target, local_weights, remote_weights,
                  sync_call, round_start >>

ClientUpdatePriorities ==
  /\ pc = "client"
  /\ log' = << "buffer.update_priorities" >>
  /\ exception' = NoException
  /\ \E n \in 1..2 :
       \E ids \in [ 1..n -> 1..(replay_buffer.next - 1) ] :
         \E td \in [ 1..n -> TdErrorValues ] :
           /\ prio_call' = [ batch |-> ids, td_error |-> td ]
           /\ replay_buffer' = BufferUpdatePriorities(replay_buffer, ids, td)
  /\ episodes' = <<>>
  /\ train_batch' = <<>>
  /\ UNCHANGED << config, pc, iteration, store_left, train_left, counters,
                  train_results, modules_to_update,
                  live, target, local_weights, remote_weights, sync_call,
                  round_start >>

NextBuffer ==
  \/ ClientAdd
  \/ ClientSample
  \/ ClientUpdatePriorities

SpecBuffer == InitBuffer /\ [][NextBuffer]_vars

(* ------------------------------------------------------------------ *)
(* The configuration on its own: SACConfig is constructed with its     *)
(* defaults, training() overrides fields, validate() accepts or raises *)
(* and only a validated configuration is trained with.  tau is held in *)
(* thousandths (5 is 5e-3) and prioritized_replay_alpha in tenths.     *)
(* The framework is torch, so the tensorflow_probability check of      *)
(* validate does not apply.                                            *)
(* ------------------------------------------------------------------ *)
ValueError == "ValueError"

InvalidConfigurationError == "InvalidConfigurationError"

TauOne == 1000

tau_default == 5

n_step_default == 1

capacity_default == 1000000

alpha_default == 6

NoGradClip == [ given |-> FALSE, value |-> 0 ]

GradClip(v) == [ given |-> TRUE, value |-> v ]

BufferTypes ==
  { "MultiAgentPrioritizedReplayBuffer", "EpisodeReplayBuffer",
    "PrioritizedEpisodeReplayBuffer" }

DefaultConfig ==
  [ tau |-> tau_default,
    n_step |-> n_step_default,
    capacity |-> capacity_default,
    prioritized_replay_alpha |-> alpha_default,
    type |-> "MultiAgentPrioritizedReplayBuffer",
    grad_clip |-> NoGradClip,
    rollout_fragment_length |-> AutoFragment,
    in_evaluation |-> FALSE ]

TrainingArgs ==
  [ tau : {0, tau_default, TauOne, TauOne + 1},
    n_step : {0, 1, 2},
    capacity : {-1, 2},
    prioritized_replay_alpha : {-1, alpha_default},
    type : { "MultiAgentPrioritizedReplayBuffer",
             "PrioritizedEpisodeReplayBuffer" },
    grad_clip : { NoGradClip, GradClip(0), GradClip(1) } ]

RolloutFragmentLengths ==
  { AutoFragment, ExplicitFragment(1), ExplicitFragment(2) }

\* super().validate() and the constructors it guards.
ConfigLayerRaises(cfg) ==
  \/ cfg.capacity < 0
  \/ cfg.prioritized_replay_alpha < 0
  \/ ~(0 < cfg.tau /\ cfg.tau <= TauOne)
  \/ cfg.n_step < 1

RolloutFragmentTooShort_reversed(cfg) ==
  /\ ~cfg.in_evaluation
  /\ ~cfg.rollout_fragment_length.auto
  /\ cfg.rollout_fragment_length.value > cfg.n_step

RolloutFragmentTooShort(cfg) ==
  /\ ~cfg.in_evaluation
  /\ ~cfg.rollout_fragment_length.auto
  /\ cfg.rollout_fragment_length.value < cfg.n_step

GradClipInvalid(cfg) ==
  cfg.grad_clip.given /\ cfg.grad_clip.value <= 0

BufferTypeInvalid(cfg) ==
  cfg.type \notin { "EpisodeReplayBuffer", "PrioritizedEpisodeReplayBuffer" }

ValidateOutcome_no_super(cfg) ==
  IF RolloutFragmentTooShort(cfg) THEN ValueError
  ELSE IF GradClipInvalid(cfg) THEN ValueError
  ELSE IF BufferTypeInvalid(cfg) THEN ValueError
  ELSE NoException

ValidateOutcome(cfg) ==
  IF ConfigLayerRaises(cfg) THEN InvalidConfigurationError
  ELSE IF RolloutFragmentTooShort(cfg) THEN ValueError
  ELSE IF GradClipInvalid(cfg) THEN ValueError
  ELSE IF BufferTypeInvalid(cfg) THEN ValueError
  ELSE NoException

InitValidate ==
  /\ \E rfl \in RolloutFragmentLengths, ev \in BOOLEAN :
       config = [ DefaultConfig EXCEPT !.rollout_fragment_length = rfl,
                                       !.in_evaluation = ev ]
  /\ pc = "constructed"
  /\ iteration = 0
  /\ store_left = 0
  /\ train_left = 0
  /\ counters = [ k \in CounterKeys |-> 0 ]
  /\ episodes = <<>>
  /\ replay_buffer = EmptyBuffer
  /\ train_batch = <<>>
  /\ train_results = EmptyDict
  /\ modules_to_update = {}
  /\ live = 0
  /\ target = 0
  /\ local_weights = 0
  /\ remote_weights = <<>>
  /\ log = <<>>
  /\ prio_call = NoCall
  /\ sync_call = NoSync
  /\ round_start = [ k \in CounterKeys |-> 0 ]
  /\ exception = NoException

ConfigUnchanged ==
  UNCHANGED << store_left, train_left, counters, episodes, replay_buffer,
               train_batch, train_results, modules_to_update, live, target,
               local_weights, remote_weights, prio_call, sync_call,
               round_start >>

SACConfig_training ==
  /\ pc = "constructed"
  /\ \E a \in TrainingArgs :
       config' = [ config EXCEPT
                     !.tau = a.tau,
                     !.n_step = a.n_step,
                     !.capacity = a.capacity,
                     !.prioritized_replay_alpha = a.prioritized_replay_alpha,
                     !.type = a.type,
                     !.grad_clip = a.grad_clip ]
  /\ log' = << "config.training" >>
  /\ UNCHANGED << pc, iteration, exception >>
  /\ ConfigUnchanged

SACConfig_validate ==
  /\ pc = "constructed"
  /\ log' = << "config.validate" >>
  /\ exception' = ValidateOutcome(config)
  /\ IF exception' = NoException THEN pc' = "validated" ELSE Raise
  /\ UNCHANGED << config, iteration >>
  /\ ConfigUnchanged

TrainValidated ==
  /\ pc = "validated"
  /\ iteration < MaxIters
  /\ iteration' = iteration + 1
  /\ log' = << "training_step" >>
  /\ UNCHANGED << config, pc, exception, store_left, train_left, counters,
                  episodes,
                  replay_buffer, train_batch, train_results,
                  modules_to_update, live, target, local_weights,
                  remote_weights, prio_call, sync_call, round_start >>

NextValidate == SACConfig_training \/ SACConfig_validate \/ TrainValidated

SpecValidate == InitValidate /\ [][NextValidate]_vars

(* ------------------------------------------------------------------ *)
(* Vocabulary of the properties                                        *)
(* ------------------------------------------------------------------ *)
CollectOps == { "sampler.sample", "buffer.add" }

TrainOps ==
  { "buffer.sample", "learner.update", "buffer.update_priorities",
    "learner.additional_update" }

PushOps == { "workers.sync_weights", "local_worker.set_weights" }

TrainOrder ==
  << "buffer.sample", "learner.update", "buffer.update_priorities",
     "learner.additional_update" >>

Count(op) == Cardinality({ i \in DOMAIN log : log[i] = op })

CountIn(ops, upto) ==
  Cardinality({ i \in DOMAIN log : i <= upto /\ log[i] \in ops })

Threshold == config.num_steps_sampled_before_learning_starts

StoreWeight == calculate_rr_weights(config)[1]

TrainWeight == calculate_rr_weights(config)[2]

\* The call issued last has returned.
Returned(op) == log # <<>> /\ Last(log) = op /\ pc # "raised"

(* ------------------------------------------------------------------ *)
(* C1 -- warm-up gate.  An iteration that ends its collect rounds with *)
(* the sampled-step counter below the threshold issues no buffer       *)
(* sample, learner update, priority update, target update or weight    *)
(* push, leaves the trained-step counters and the parameters as they   *)
(* were (nothing has trained yet, so at their initial value) and       *)
(* returns empty metrics; with the counter at or above the threshold   *)
(* the train rounds run.                                               *)
(* ------------------------------------------------------------------ *)
C1_WarmupGate ==
  /\ (\E i \in DOMAIN log : log[i] \in TrainOps \cup PushOps)
       => CurrentTs(counters, config) >= Threshold
  /\ (pc = "done" /\ CurrentTs(counters, config) < Threshold)
       => /\ \A i \in DOMAIN log : log[i] \in CollectOps
          /\ \A k \in TrainedKeys : counters[k] = 0
          /\ target = 0 /\ live = 0
          /\ train_results = EmptyDict
  /\ (pc = "done" /\ CurrentTs(counters, config) >= Threshold)
       => /\ Count("buffer.sample") = TrainWeight
          /\ Count("learner.additional_update") = TrainWeight

C1_Witness ==
  /\ pc = "done"
  /\ CurrentTs(counters, config) > 0
  /\ CurrentTs(counters, config) < Threshold
  /\ train_results = EmptyDict

(* ------------------------------------------------------------------ *)
(* C2 -- the phases of one iteration are sequential: each collect      *)
(* round is a sampler call followed by a buffer add, all collect       *)
(* rounds precede the first train call, no collect call follows a      *)
(* train call, the weight push follows the last train round and the    *)
(* report follows the push.                                            *)
(* ------------------------------------------------------------------ *)
C2_PhasesSequential ==
  /\ \A i \in DOMAIN log :
       /\ log[i] = "sampler.sample" /\ i < Len(log) => log[i + 1] = "buffer.add"
       /\ log[i] = "buffer.add" => i > 1 /\ log[i - 1] = "sampler.sample"
       /\ log[i] \in TrainOps =>
            /\ CountIn({ "sampler.sample" }, i) = StoreWeight
            /\ CountIn({ "buffer.add" }, i) = StoreWeight
            /\ \A j \in DOMAIN log : j > i => log[j] \notin CollectOps
       /\ log[i] \in PushOps =>
            /\ i = Len(log)
            /\ CountIn({ "learner.additional_update" }, i) = TrainWeight
            /\ CountIn(TrainOps, i) = 4 * TrainWeight
  /\ (pc = "gate") => Count("buffer.add") = StoreWeight
  /\ (pc = "done" /\ \E i \in DOMAIN log : log[i] \in TrainOps)
       => Last(log) \in PushOps

C2_Witness ==
  /\ pc = "done"
  /\ Count("buffer.add") = 2
  /\ Last(log) \in PushOps

(* ------------------------------------------------------------------ *)
(* C3 -- inside a train round the calls are issued in the order        *)
(* sample, learner update, (counters), update_priorities, target       *)
(* synchronizer, (merge), each once per round; update_priorities gets  *)
(* the batch of this round and the td-errors the learner returned for  *)
(* it; the synchronizer gets the modules of the learner result and its *)
(* output is merged into this round's per-module metrics.              *)
(* ------------------------------------------------------------------ *)
TrainLog == SelectSeq(log, LAMBDA op : op \in TrainOps)

C3_TrainRoundOrder ==
  /\ \A k \in DOMAIN TrainLog : TrainLog[k] = TrainOrder[((k - 1) % 4) + 1]
  /\ Returned("learner.update") =>
       /\ Len(train_results[DEFAULT_MODULE].td_error) = Len(train_batch)
       /\ \A k \in TrainedKeys :
            counters[k] = round_start[k] + Len(train_batch)
  /\ Returned("buffer.update_priorities") =>
       /\ prio_call.batch = train_batch
       /\ prio_call.td_error = train_results[DEFAULT_MODULE].td_error
       /\ \A k \in TrainedKeys :
            counters[k] = round_start[k] + Len(train_batch)
  /\ Returned("learner.additional_update") =>
       /\ sync_call.modules = DOMAIN train_results \ { ALL_MODULES }
       /\ sync_call.modules = { DEFAULT_MODULE }
       /\ \A m \in sync_call.modules :
            /\ "last_target_update_ts" \in DOMAIN train_results[m]
            /\ train_results[m].num_target_updates =
                 (IF sync_call.fired THEN 1 ELSE 0)
            /\ "td_error" \in DOMAIN train_results[m]

C3_Witness ==
  /\ pc = "broadcast"
  /\ Len(TrainLog) = 8
  /\ train_results[DEFAULT_MODULE].num_target_updates = 1

(* ------------------------------------------------------------------ *)
(* C4 -- no step of the orchestrator decreases a cumulative counter    *)
(* (steps sampled, steps trained, last target update timestep).        *)
(* ------------------------------------------------------------------ *)
C4_CountersMonotone ==
  [][ \A k \in CounterKeys : counters'[k] >= counters[k] ]_vars

C4_Witness ==
  /\ iteration = 2
  /\ pc = "done"
  /\ counters[NUM_ENV_STEPS_TRAINED] > TrainWeight * config.train_batch_size
  /\ counters[NUM_AGENT_STEPS_SAMPLED] > 2

(* ------------------------------------------------------------------ *)
(* C5 -- as claimed: every returned dict holds the aggregate key, also *)
(* when the warm-up gate skipped training.                             *)
(* ------------------------------------------------------------------ *)
C5_Original_AggregateAlways ==
  pc = "done" => ALL_MODULES \in DOMAIN train_results

(* C5, amended -- a dict returned after the train rounds ran holds the *)
(* aggregate key alongside the per-module keys; the dict returned when *)
(* the gate skipped training is empty.                                 *)
C5_AggregateWhenTrained ==
  pc = "done" =>
    IF CurrentTs(counters, config) >= Threshold
    THEN /\ ALL_MODULES \in DOMAIN train_results
         /\ DOMAIN train_results \ { ALL_MODULES } = { DEFAULT_MODULE }
    ELSE train_results = EmptyDict

C5_Witness ==
  /\ pc = "done"
  /\ ALL_MODULES \in DOMAIN train_results
  /\ DEFAULT_MODULE \in DOMAIN train_results

(* ------------------------------------------------------------------ *)
(* C6 -- as claimed: a collect round that fails leaves the sampled-    *)
(* step counters at their value before the round, a train round that   *)
(* fails leaves the trained-step counters at their value before the    *)
(* round.                                                              *)
(* ------------------------------------------------------------------ *)
C6_RoundsAllOrNothing ==
  pc = "raised" =>
    /\ Last(log) \in CollectOps =>
         \A k \in SampledKeys : counters[k] = round_start[k]
    /\ Last(log) \in TrainOps =>
         \A k \in TrainedKeys : counters[k] = round_start[k]

(* ------------------------------------------------------------------ *)
(* C7 -- as claimed: the synchronizer fires exactly when freq = 0, or  *)
(* freq > 0 and timestep - last_update_timestep >= freq, and after a   *)
(* hard update fired the last-target-update timestep equals the        *)
(* timestep of that update.                                            *)
(* ------------------------------------------------------------------ *)
C7_FiringCondition ==
  Returned("learner.additional_update") =>
    LET freq == config.target_network_update_freq
    IN  /\ sync_call.fired <=>
             \/ freq = 0
             \/ freq > 0 /\ sync_call.timestep - sync_call.last_update >= freq
        /\ (freq > 0 /\ sync_call.fired)
             => counters[LAST_TARGET_UPDATE_TS] = sync_call.timestep

(* ------------------------------------------------------------------ *)
(* C8 -- as claimed: in hard mode the timestep handed to the           *)
(* synchronizer is the cumulative trained-step count.                  *)
(* ------------------------------------------------------------------ *)
C8_Original_TrainedTimestep ==
  (Returned("learner.additional_update")
     /\ config.target_network_update_freq > 0)
    => sync_call.timestep = counters[NUM_AGENT_STEPS_TRAINED]

(* C8, amended -- in hard mode the timestep handed to the synchronizer *)
(* is the cumulative sampled agent-step count and the last_update      *)
(* handed to it is the last-target-update counter; whenever            *)
(* timestep - last_update >= freq at the call, the target parameters   *)
(* equal the live parameters after it.                                 *)
C8_SampledTimestep ==
  (Returned("learner.additional_update")
     /\ config.target_network_update_freq > 0)
    => /\ sync_call.timestep = counters[NUM_AGENT_STEPS_SAMPLED]
       /\ sync_call.last_update = counters[LAST_TARGET_UPDATE_TS]
       /\ (sync_call.timestep - sync_call.last_update
             >= config.target_network_update_freq) => target = live

C8_Witness ==
  /\ Returned("learner.additional_update")
  /\ config.target_network_update_freq > 0
  /\ sync_call.fired
  /\ sync_call.timestep # counters[NUM_AGENT_STEPS_TRAINED]
  /\ live > 0
  /\ target = live

(* ------------------------------------------------------------------ *)
(* C9 -- as claimed: in hard mode a synchronizer call made at the      *)
(* timestep at which an update already fired (the 2nd..k-th train      *)
(* round of an iteration) changes neither the target parameters nor    *)
(* the last-target-update timestep.                                    *)
(* ------------------------------------------------------------------ *)
C9_HardSyncIdempotent ==
  [][ ( /\ pc = "train_target"
        /\ pc' # "raised"
        /\ config.target_network_update_freq > 0
        /\ sync_call.fired
        /\ sync_call.timestep = counters[NUM_AGENT_STEPS_SAMPLED] )
      => ( /\ target' = target
           /\ counters'[LAST_TARGET_UPDATE_TS]
                = counters[LAST_TARGET_UPDATE_TS] ) ]_vars

(* ------------------------------------------------------------------ *)
(* C10 -- an iteration whose train rounds ran issues exactly one       *)
(* parameter push, after the last train round: to all remote workers   *)
(* when there are any, to the local worker otherwise; the workers      *)
(* pushed to then hold the learner's live parameters.  An iteration    *)
(* whose gate skipped training pushes nothing.                         *)
(* ------------------------------------------------------------------ *)
C10_WeightBroadcast ==
  pc = "done" =>
    IF \E i \in DOMAIN log : log[i] \in TrainOps
    THEN /\ CountIn(PushOps, Len(log)) = 1
         /\ Last(log) \in PushOps
         /\ log[Len(log) - 1] = "learner.additional_update"
         /\ IF config.num_remote_workers > 0
            THEN /\ Last(log) = "workers.sync_weights"
                 /\ \A w \in 1..config.num_remote_workers :
                      remote_weights[w] = live
            ELSE /\ Last(log) = "local_worker.set_weights"
                 /\ local_weights = live
    ELSE CountIn(PushOps, Len(log)) = 0

C10_Witness ==
  /\ pc = "done"
  /\ config.num_remote_workers > 1
  /\ Last(log) = "workers.sync_weights"
  /\ live > 1
  /\ \A w \in 1..config.num_remote_workers : remote_weights[w] = live

(* ------------------------------------------------------------------ *)
(* C11 -- rate controller.  The pair (collect_rounds, train_rounds)    *)
(* computed on entry of every iteration consists of positive integers  *)
(* in lowest terms with train_rounds / collect_rounds equal to         *)
(* training_intensity / natural_ratio (1:1 for training_intensity =    *)
(* None, 1:4 for intensity 1000 with natural ratio 250); the iteration *)
(* then runs exactly collect_rounds collect rounds and, when the gate  *)
(* passes, exactly train_rounds train rounds.                          *)
(* ------------------------------------------------------------------ *)
DocExampleConfig ==
  [ training_intensity |-> 1000, train_batch_size |-> 250,
    rollout_fragment_length |-> ExplicitFragment(1), n_step |-> 1,
    num_remote_workers |-> 1 ]

PastCollect ==
  pc \in { "gate", "train_sample", "train_update", "train_prio",
           "train_target", "broadcast", "done" }

C11_RateController ==
  /\ calculate_rr_weights(DocExampleConfig) = << 1, 4 >>
  /\ StoreWeight >= 1 /\ TrainWeight >= 1
  /\ GCD(StoreWeight, TrainWeight) = 1
  /\ IF config.training_intensity = NoIntensity
     THEN StoreWeight = 1 /\ TrainWeight = 1
     ELSE TrainWeight * config.train_batch_size
            = StoreWeight * config.training_intensity
                * get_rollout_fragment_length(config)
                * Max(1, config.num_remote_workers)
  /\ (pc = "collect_sample" /\ log = <<>>)
       => store_left = StoreWeight /\ train_left = TrainWeight
  /\ PastCollect
       => /\ Count("sampler.sample") = StoreWeight
          /\ Count("buffer.add") = StoreWeight
  /\ (pc = "broadcast" \/ (pc = "done" /\ train_results # EmptyDict))
       => \A op \in TrainOps : Count(op) = TrainWeight

C11_Witness ==
  /\ pc = "done"
  /\ iteration = 2
  /\ config.training_intensity # NoIntensity
  /\ config.train_batch_size = 2
  /\ config.num_remote_workers = 2
  /\ StoreWeight = 1 /\ TrainWeight = 1
  /\ Count("learner.update") = 1

(* ------------------------------------------------------------------ *)
(* C12 -- a failing collaborator call is fatal to the iteration: the   *)
(* step on which a sampler call, buffer operation, learner update or   *)
(* target update raises leaves training_step with that exception and   *)
(* without metrics; the failing call is the last call of the           *)
(* iteration (no later round, no weight push, no retry), and the only  *)
(* thing that follows is a fresh call of training_step.                *)
(* ------------------------------------------------------------------ *)
C12_FailuresFatal ==
  [][ /\ exception' # NoException =>
           /\ pc' = "raised"
           /\ log' # <<>> /\ Last(log') = exception'
      /\ exception # NoException =>
           /\ iteration' = iteration + 1
           /\ log' = <<>>
           /\ exception' = NoException
           /\ train_results' = EmptyDict ]_vars

C12_Witness ==
  /\ pc = "raised"
  /\ exception = "learner.additional_update"
  /\ train_left = 2
  /\ Count("learner.additional_update") = 1
  /\ \A i \in DOMAIN log : log[i] \notin PushOps

(* ------------------------------------------------------------------ *)
(* C13 -- FIFO eviction law.  The buffer never holds more than C       *)
(* transitions, and it holds exactly the most recently inserted ones:  *)
(* all of them while at most C were inserted, the last C afterwards    *)
(* (capacity 4 and ids 1..6 inserted one at a time leave 3, 4, 5, 6).  *)
(* ------------------------------------------------------------------ *)
Min(a, b) == IF a <= b THEN a ELSE b

Inserted(b) == b.next - 1

MostRecent(count, inserted) ==
  [ i \in 1..count |-> inserted - count + i ]

C13_FifoEviction ==
  /\ InsertN(EmptyBuffer, 6, 4).ids = << 3, 4, 5, 6 >>
  /\ Len(replay_buffer.ids) <= config.capacity
  /\ replay_buffer.ids =
       MostRecent(Min(config.capacity, Inserted(replay_buffer)),
                  Inserted(replay_buffer))

C13_Witness ==
  /\ log = << "buffer.add" >>
  /\ Len(episodes) = 2
  /\ Inserted(replay_buffer) > config.capacity + 1
  /\ Len(replay_buffer.ids) = config.capacity

(* ------------------------------------------------------------------ *)
(* C14 -- stale priority updates.  update_priorities called with ids   *)
(* of which some are no longer stored raises nothing, sets the         *)
(* priority of every id that is still stored to |td_error| + eps (the  *)
(* td-error given last for that id) and leaves the stored transitions  *)
(* and every other priority entry as they were.                        *)
(* ------------------------------------------------------------------ *)
LastIndexOf(ids, i) ==
  CHOOSE k \in DOMAIN ids :
    ids[k] = i /\ \A j \in DOMAIN ids : ids[j] = i => j <= k

C14_StaleUpdatesIgnored ==
  [][ log' = << "buffer.update_priorities" >> =>
        LET ids == prio_call'.batch
            td  == prio_call'.td_error
        IN  /\ exception' = NoException
            /\ replay_buffer'.ids = replay_buffer.ids
            /\ replay_buffer'.next = replay_buffer.next
            /\ DOMAIN replay_buffer'.prio = DOMAIN replay_buffer.prio
            /\ \A i \in DOMAIN replay_buffer.prio :
                 replay_buffer'.prio[i] =
                   IF i \in Range(ids)
                   THEN Abs(td[LastIndexOf(ids, i)]) + Eps
                   ELSE replay_buffer.prio[i] ]_vars

C14_Witness ==
  /\ log = << "buffer.update_priorities" >>
  /\ exception = NoException
  /\ \E k \in DOMAIN prio_call.batch :
       prio_call.batch[k] \notin Range(replay_buffer.ids)
  /\ \E k \in DOMAIN prio_call.batch :
       /\ prio_call.batch[k] \in Range(replay_buffer.ids)
       /\ prio_call.td_error[k] # 0
       /\ replay_buffer.prio[prio_call.batch[k]] = Eps + 1
  /\ \E i \in Range(replay_buffer.ids) : i \notin Range(prio_call.batch)

(* ------------------------------------------------------------------ *)
(* C15 -- sample raises InsufficientDataError exactly when the buffer  *)
(* is empty and leaves the buffer as it was; on a nonempty buffer it   *)
(* returns exactly num_items stored transitions, also when num_items   *)
(* exceeds the number of stored transitions.                           *)
(* ------------------------------------------------------------------ *)
C15_SampleInsufficientData ==
  [][ log' = << "buffer.sample" >> =>
        /\ replay_buffer' = replay_buffer
        /\ (exception' = InsufficientDataError) <=> (replay_buffer.ids = <<>>)
        /\ replay_buffer.ids = <<>> => train_batch' = <<>>
        /\ replay_buffer.ids # <<>> =>
             /\ exception' = NoException
             /\ Len(train_batch') = config.train_batch_size
             /\ Range(train_batch') \subseteq Range(replay_buffer.ids) ]_vars

C15_Witness ==
  /\ log = << "buffer.sample" >>
  /\ exception = NoException
  /\ Len(replay_buffer.ids) = 1
  /\ Len(train_batch) = 2

(* ------------------------------------------------------------------ *)
(* C16 -- priority-entry invariant.  Whatever the interleaving of add, *)
(* sample and update_priorities, the ids with a priority entry are     *)
(* exactly the stored ids, one entry each, and every priority is at    *)
(* least eps > 0.                                                      *)
(* ------------------------------------------------------------------ *)
C16_PriorityEntries ==
  /\ Eps > 0
  /\ DOMAIN replay_buffer.prio = Range(replay_buffer.ids)
  /\ Cardinality(Range(replay_buffer.ids)) = Len(replay_buffer.ids)
  /\ \A i \in DOMAIN replay_buffer.prio : replay_buffer.prio[i] >= Eps
  /\ replay_buffer.maxp >= Eps

C16_Witness ==
  /\ log = << "buffer.sample" >>
  /\ Inserted(replay_buffer) > config.capacity
  /\ \E i \in Range(replay_buffer.ids) : replay_buffer.prio[i] = Eps
  /\ \E i \in Range(replay_buffer.ids) : replay_buffer.prio[i] > Eps

(* ------------------------------------------------------------------ *)
(* C17 -- malformed numeric parameters (negative capacity, alpha < 0,  *)
(* tau outside (0, 1], n_step < 1) are rejected with an error when the *)
(* configuration is validated: validate raises and leaves the values   *)
(* as they were given (nothing is clamped), a validated configuration  *)
(* is well-formed, and no iteration runs with a malformed one.         *)
(* ------------------------------------------------------------------ *)
Malformed(cfg) ==
  \/ cfg.capacity < 0
  \/ cfg.prioritized_replay_alpha < 0
  \/ cfg.tau <= 0
  \/ cfg.tau > TauOne
  \/ cfg.n_step < 1

C18_FragmentCoversNStep ==
  /\ config.rollout_fragment_length.auto =>
       get_rollout_fragment_length(config) = config.n_step
  /\ ( /\ log = << "config.validate" >>
       /\ ~config.in_evaluation
       /\ ~config.rollout_fragment_length.auto
       /\ config.rollout_fragment_length.value < config.n_step ) =>
       /\ pc = "raised"
       /\ ~ConfigLayerRaises(config) => exception = ValueError
  /\ (pc = "validated" /\ ~config.in_evaluation) =>
       get_rollout_fragment_length(config) >= config.n_step

C18_Witness ==
  /\ pc = "raised"
  /\ log = << "config.validate" >>
  /\ exception = ValueError
  /\ ~config.in_evaluation
  /\ config.rollout_fragment_length = ExplicitFragment(1)
  /\ config.n_step = 2
  /\ ~ConfigLayerRaises(config)
  /\ ~GradClipInvalid(config)
  /\ ~BufferTypeInvalid(config)

(* ------------------------------------------------------------------ *)
(* C19 -- the agent-steps-sampled and env-steps-sampled counters are   *)
(* equal in every reachable state, so the warm-up gate decides the     *)
(* same under count_steps_by = "agent_steps" and "env_steps", and the  *)
(* timestep handed to the synchronizer is the value of either counter. *)
(* ------------------------------------------------------------------ *)
CountedBy(mode) == [ config EXCEPT !.count_steps_by = mode ]

C19_SampledCountersEqual ==
  /\ counters[NUM_AGENT_STEPS_SAMPLED] = counters[NUM_ENV_STEPS_SAMPLED]
  /\ GatePasses(CurrentTs(counters, CountedBy("agent_steps")), config)
       = GatePasses(CurrentTs(counters, CountedBy("env_steps")), config)
  /\ sync_call # NoSync =>
       /\ sync_call.timestep = counters[NUM_AGENT_STEPS_SAMPLED]
       /\ sync_call.timestep = counters[NUM_ENV_STEPS_SAMPLED]

C19_Witness ==
  /\ config.count_steps_by = "env_steps"
  /\ iteration = 2
  /\ sync_call # NoSync
  /\ sync_call.timestep = 3
  /\ counters[NUM_ENV_STEPS_SAMPLED] = 3
  /\ Threshold = 3

AllCountedStored ==
  Inserted(replay_buffer) = counters[NUM_ENV_STEPS_SAMPLED]

C21_NoStalePriorityIds ==
  /\ train_batch # <<>> =>
       Range(train_batch) \subseteq Range(replay_buffer.ids)
  /\ prio_call # NoCall =>
       /\ prio_call.batch = train_batch
       /\ Range(prio_call.batch) \subseteq Range(replay_buffer.ids)
       /\ Range(prio_call.batch) \subseteq DOMAIN replay_buffer.prio
  /\ \A i, j \in DOMAIN log :
       (i < j /\ log[i] = "buffer.sample") => log[j] # "buffer.add"

C21_Witness ==
  /\ pc = "train_target"
  /\ prio_call # NoCall
  /\ Len(prio_call.batch) = 2
  /\ prio_call.batch[1] # prio_call.batch[2]
  /\ Inserted(replay_buffer) > config.capacity
  /\ Returned("buffer.update_priorities")

(* ------------------------------------------------------------------ *)
(* C22 -- the metrics an iteration returns are those of its last train *)
(* round only: at the end of every round train_results is the learner  *)
(* result of that round's batch merged with that round's synchronizer  *)
(* output, nothing of an earlier round is added to it, the modules to  *)
(* update are the modules of that result, and the weight push leaves   *)
(* both as the last round left them.                                   *)
(* ------------------------------------------------------------------ *)
C22_LastRoundResults ==
  [][ /\ (pc = "train_target" /\ pc' \in { "train_sample", "broadcast" }) =>
           /\ DOMAIN train_results' = { ALL_MODULES, DEFAULT_MODULE }
           /\ train_results'[ALL_MODULES].num_steps = Len(train_batch)
           /\ train_results'[DEFAULT_MODULE].td_error = prio_call.td_error
           /\ Len(train_results'[DEFAULT_MODULE].td_error) = Len(train_batch)
           /\ train_results'[DEFAULT_MODULE].num_target_updates =
                (IF sync_call'.fired THEN 1 ELSE 0)
           /\ train_results'[DEFAULT_MODULE].last_target_update_ts =
                (IF sync_call'.fired THEN sync_call'.timestep
                 ELSE sync_call'.last_update)
           /\ modules_to_update' = DOMAIN train_results' \ { ALL_MODULES }
           /\ sync_call'.modules = modules_to_update'
      /\ pc = "broadcast" =>
           /\ train_results' = train_results
           /\ modules_to_update' = modules_to_update
    ]_vars

C22_Witness ==
  /\ pc = "done"
  /\ Count("learner.update") = 2
  /\ Count("learner.additional_update") = 2
  /\ TrainWeight = 2
  /\ iteration = 1
  /\ train_results # EmptyDict
  /\ train_results[ALL_MODULES].num_steps = 1
  /\ counters[NUM_ENV_STEPS_TRAINED] = 2
  /\ modules_to_update = { DEFAULT_MODULE }

====
